---- MODULE Spec2Model ----
(***************************************************************************)
(* A model of the tsbench pipeline of camh-/timescale (src/main.go,        *)
(* src/channel.go): readQueries -> executeQueries -> summariseResults,     *)
(* joined by an errgroup in run(), and of the test helper parse() of       *)
(* src/main_test.go that drives readQueries alone.                         *)
(*                                                                         *)
(* Text is modelled by TLA+ strings, a CSV line by the sequence of its     *)
(* fields (the empty line by <<>>), a time.Duration by an integer, an      *)
(* error by a record [kind, line, msg, arg] and the nil error by Nil.      *)
(* The two channels are unbuffered: a send and a receive complete together *)
(* in one step (a rendezvous).                                             *)
(***************************************************************************)
EXTENDS Integers, Sequences, FiniteSets, TLC

\* ------------------------------------------------------------------ bounds

\* The largest number of lines after the header in an input of a pipeline run.
MaxRows == 3

\* The largest number of lines after the header in an input given to parse().
MaxParseRows == 3

\* The largest latency (in duration units) the database takes for a query.
MaxLatency == 2

\* ------------------------------------------------------------- input text

\* The number of columns of a well-formed file.
NumColumns == 3

goodHeader == <<"hostname", "start_time", "end_time">>
badHeader == <<"hostname", "start_time">>
wrongHeader == <<"hostname", "start_time", "stop_time">>
good1 == <<"host_000008", "2017-01-01 08:59:22", "2017-01-01 09:59:22">>
good2 == <<"host_000001", "2017-01-02 13:02:02", "2017-01-02 14:02:02">>
badHostname == <<"", "2017-01-01 08:59:22", "2017-01-01 09:59:22">>
badStartTime == <<"host_000008", "08:59:22 2017-01-01", "2017-01-01 09:59:22">>
badEndTime == <<"host_000008", "2017-01-01 08:59:22", "2017-21-01 09:59:22">>
badBothTimes == <<"host_000001", "08:59:22 2017-01-01", "2017-21-01 09:59:22">>
badHostAndTime == <<"", "08:59:22 2017-01-01", "2017-01-01 09:59:22">>
badRow == <<"hostname", "">>
emptyRow == <<>>

\* The lines a pipeline run's input is made of.
RunLines == {good1, good2, emptyRow, badHostname, badRow}

\* The lines an input of parse() is made of.
ParseLines == {good1, good2, emptyRow, badHostname, badStartTime, badEndTime,
               badBothTimes, badHostAndTime, badRow}

\* The header lines of the inputs.
Headers == {goodHeader, badHeader, wrongHeader}

RECURSIVE SeqsUpTo(_, _)
SeqsUpTo(S, n) ==
    IF n = 0 THEN {<<>>}
    ELSE LET shorter == SeqsUpTo(S, n - 1)
         IN  shorter \cup {Append(s, x) : s \in shorter, x \in S}

\* The empty stream, and every header followed by up to n of the lines.
Inputs(lines, n) ==
    {<<>>} \cup {<<h>> \o rows : h \in Headers, rows \in SeqsUpTo(lines, n)}

\* ------------------------------------------------------------------ errors

Nil == [kind |-> "nil", line |-> 0, msg |-> "", arg |-> ""]
Err(kind, line, msg, arg) == [kind |-> kind, line |-> line, msg |-> msg, arg |-> arg]

ErrEOF == Err("io.EOF", 0, "EOF", "")
ErrFieldCount(line) == Err("csv.ParseError", line, "wrong number of fields", "")
ErrCanceled == Err("context", 0, "context canceled", "")
ErrPrepare == Err("sql", 0, "prepare failed", "")
ErrQuery == Err("sql", 0, "query failed", "")

\* fmt.Errorf("line %d: %w", line, err)
WrapLine(line, err) == Err("line", line, err.msg, err.arg)

\* ------------------------------------------------------------ encoding/csv

\* The index of the first non-empty line after line p, Len(inp) + 1 if none:
\* csv.Reader skips empty lines.
RECURSIVE SkipBlank(_, _)
SkipBlank(inp, p) ==
    IF p + 1 > Len(inp) THEN Len(inp) + 1
    ELSE IF Len(inp[p + 1]) = 0 THEN SkipBlank(inp, p + 1)
    ELSE p + 1

\* csvRead gone wrong: the line that follows the record is consumed with it.
csvReadAhead(inp, p, nf) ==
    LET n == SkipBlank(inp, p)
    IN  IF n > Len(inp)
        THEN [err |-> ErrEOF, rec |-> <<>>, pos |-> Len(inp), nf |-> nf]
        ELSE IF nf > 0 /\ Len(inp[n]) # nf
        THEN [err |-> ErrFieldCount(n), rec |-> inp[n], pos |-> n, nf |-> nf]
        ELSE [err |-> Nil, rec |-> inp[n],
              pos |-> IF n < Len(inp) THEN n + 1 ELSE n, nf |-> Len(inp[n])]

\* r.Read() of a csv.Reader that has consumed p lines and expects nf fields per
\* record (0: not yet known, FieldsPerRecord is set from the first record).
csvRead(inp, p, nf) ==
    LET n == SkipBlank(inp, p)
    IN  IF n > Len(inp)
        THEN [err |-> ErrEOF, rec |-> <<>>, pos |-> Len(inp), nf |-> nf]
        ELSE IF nf > 0 /\ Len(inp[n]) # nf
        THEN [err |-> ErrFieldCount(n), rec |-> inp[n], pos |-> n, nf |-> nf]
        ELSE [err |-> Nil, rec |-> inp[n], pos |-> n, nf |-> Len(inp[n])]

\* strings.Join(fields, ", ")
RECURSIVE Join(_)
Join(fields) ==
    IF Len(fields) = 0 THEN ""
    ELSE IF Len(fields) = 1 THEN fields[1]
    ELSE fields[1] \o ", " \o Join(Tail(fields))

\* -------------------------------------------------------------- time.Parse

\* The text of a time field, read under the layout "2006-01-02 15:04:05":
\* whether it has the layout's shape, and the numbers at the layout's places.
TimeText ==
    ("2017-01-01 08:59:22" :> [shape |-> TRUE, t |-> <<2017, 1, 1, 8, 59, 22>>]) @@
    ("2017-01-01 09:59:22" :> [shape |-> TRUE, t |-> <<2017, 1, 1, 9, 59, 22>>]) @@
    ("2017-01-02 13:02:02" :> [shape |-> TRUE, t |-> <<2017, 1, 2, 13, 2, 2>>]) @@
    ("2017-01-02 14:02:02" :> [shape |-> TRUE, t |-> <<2017, 1, 2, 14, 2, 2>>]) @@
    ("2017-21-01 09:59:22" :> [shape |-> TRUE, t |-> <<2017, 21, 1, 9, 59, 22>>]) @@
    ("08:59:22 2017-01-01" :> [shape |-> FALSE, t |-> <<0, 0, 0, 0, 0, 0>>]) @@
    ("" :> [shape |-> FALSE, t |-> <<0, 0, 0, 0, 0, 0>>])

DaysIn(year, month) ==
    IF month \in {4, 6, 9, 11} THEN 30
    ELSE IF month # 2 THEN 31
    ELSE IF year % 4 = 0 /\ (year % 100 # 0 \/ year % 400 = 0) THEN 29
    ELSE 28

ZeroTime == <<1, 1, 1, 0, 0, 0>>

\* time.Parse("2006-01-02 15:04:05", s): the time in UTC, or an error.
ParseTime(s) ==
    LET x == TimeText[s]
        t == x.t
        ok == /\ x.shape
              /\ t[2] \in 1..12
              /\ t[3] \in 1..DaysIn(t[1], t[2])
              /\ t[4] \in 0..23
              /\ t[5] \in 0..59
              /\ t[6] \in 0..59
    IN  IF ok THEN [err |-> Nil, t |-> t]
        ELSE [err |-> Err("time.ParseError", 0, "cannot parse", s), t |-> ZeroTime]

\* ---------------------------------------------------------------- newQuery

ZeroQuery == [hostname |-> "", start |-> ZeroTime, end |-> ZeroTime]

\* newQuery gone wrong: the hostname is not checked.
newQueryAnyHost(row) ==
    LET start == ParseTime(row[2])
        end == ParseTime(row[3])
    IN  IF start.err # Nil
        THEN [q |-> ZeroQuery, err |-> Err("fmt", 0, "invalid start time", row[2])]
        ELSE IF end.err # Nil
        THEN [q |-> ZeroQuery, err |-> Err("fmt", 0, "invalid start time", row[3])]
        ELSE [q |-> [hostname |-> row[1], start |-> start.t, end |-> end.t],
              err |-> Nil]

\* newQuery(row): the query of a three-field row, or the first field's error.
newQuery(row) ==
    IF row[1] = ""
    THEN [q |-> ZeroQuery, err |-> Err("errors", 0, "empty hostname", "")]
    ELSE LET start == ParseTime(row[2])
             end == ParseTime(row[3])
         IN  IF start.err # Nil
             THEN [q |-> ZeroQuery,
                   err |-> Err("fmt", 0, "invalid start time", row[2])]
             ELSE IF end.err # Nil
             THEN [q |-> ZeroQuery,
                   err |-> Err("fmt", 0, "invalid start time", row[3])]
             ELSE [q |-> [hostname |-> row[1], start |-> start.t, end |-> end.t],
                   err |-> Nil]

\* -------------------------------------------------------- summariseResults

ZeroSummary == [count |-> 0, sum |-> 0, min |-> 0, max |-> 0, mean |-> 0, median |-> 0]

\* A queryResult: the minimum and maximum the database returned play no part
\* in the pipeline and are left out.
Result(d) == [queryDuration |-> d]

\* The loop body gone wrong: the maximum is taken from the first result only.
TallyFirstMax(s, r) ==
    LET d == r.queryDuration
    IN  [s EXCEPT !.count = s.count + 1,
                  !.min = IF d < s.min \/ s.min = 0 THEN d ELSE s.min,
                  !.max = IF s.count = 0 THEN d ELSE s.max,
                  !.sum = s.sum + d]

\* The body of summariseResults' loop for one received result.
Tally(s, r) ==
    LET d == r.queryDuration
    IN  [s EXCEPT !.count = s.count + 1,
                  !.min = IF d < s.min \/ s.min = 0 THEN d ELSE s.min,
                  !.max = IF d > s.max THEN d ELSE s.max,
                  !.sum = s.sum + d]

\* Go's integer division truncates toward zero.
GoDiv(a, b) == IF a >= 0 THEN a \div b ELSE -((-a) \div b)

\* sort.Slice(results, less by queryDuration): results ordered by duration.
RECURSIVE Insert(_, _)
Insert(sorted, r) ==
    IF Len(sorted) = 0 THEN <<r>>
    ELSE IF r.queryDuration < Head(sorted).queryDuration THEN <<r>> \o sorted
    ELSE <<Head(sorted)>> \o Insert(Tail(sorted), r)

RECURSIVE SortByDuration(_)
SortByDuration(rs) ==
    IF Len(rs) = 0 THEN <<>>
    ELSE Insert(SortByDuration(SubSeq(rs, 1, Len(rs) - 1)), rs[Len(rs)])

\* calculateMedian gone wrong: the slice is not sorted first.
calculateMedianUnsorted(rs) ==
    LET count == Len(rs)
    IN  IF count % 2 = 0
        THEN GoDiv(rs[count \div 2].queryDuration
                   + rs[(count \div 2) + 1].queryDuration, 2)
        ELSE rs[(count \div 2) + 1].queryDuration

\* calculateMedian(results), for a non-empty slice.
calculateMedian(rs) ==
    LET sorted == SortByDuration(rs)
        count == Len(sorted)
    IN  IF count % 2 = 0
        THEN GoDiv(sorted[count \div 2].queryDuration
                   + sorted[(count \div 2) + 1].queryDuration, 2)
        ELSE sorted[(count \div 2) + 1].queryDuration

\* ------------------------------------------------------------------- state

VARIABLES
    input,        \* the lines of the input stream
    pos,          \* csv.Reader: the number of lines consumed
    numFields,    \* csv.Reader: FieldsPerRecord (0 before the first record)
    line,         \* readQueries: the loop counter
    qR,           \* readQueries: the query being sent
    pcR,          \* readQueries: where it is
    errR,         \* readQueries: the error it returns
    pcE,          \* executeQueries: where it is (collect() under parse())
    qE,           \* executeQueries: the query received
    qr,           \* executeQueries: the result being sent
    errE,         \* executeQueries: the error it returns
    pcS,          \* summariseResults: where it is
    summary,      \* summariseResults: its summary
    results,      \* summariseResults: its slice of results
    closes,       \* per channel, the stages that have closed it, in order
    ctxDone,      \* whether the group's context is cancelled
    gErr,         \* errgroup: the group's error
    pcRun,        \* run() or parse(): where it is
    summaryVar,   \* run's variable summary
    runSummary,   \* the summary run() returned
    runErr,       \* the error run() returned
    got,          \* parse: the queries collect() has gathered
    parseErr,     \* parse: its variable err
    panicked,     \* the run-time panic raised in a goroutine ("" if none)
    exited,       \* the process has ended
    forwarded,    \* history: the queries handed over on the queries channel
    queried,      \* history: the hostnames queried against the database
    produced,     \* history: the results of the queries that succeeded
    received,     \* history: the results handed over on the results channel
    errLog        \* history: the non-nil errors returned to the group, in order

readerVars == <<pos, numFields, line, qR, pcR, errR>>
execVars == <<pcE, qE, qr, errE>>
summVars == <<pcS, summary, results>>
groupVars == <<ctxDone, gErr, errLog>>
runVars == <<pcRun, summaryVar, runSummary, runErr>>
parseVars == <<got, parseErr>>
histVars == <<forwarded, queried, produced, received>>
procVars == <<panicked, exited>>

vars == <<input, readerVars, execVars, summVars, closes, groupVars, runVars,
          parseVars, procVars, histVars>>

queriesClosed == Len(closes.queries) > 0
resultsClosed == Len(closes.results) > 0

\* The process is still running.
Alive == ~exited

InitCommon ==
    /\ pos = 0
    /\ numFields = 0
    /\ line = 0
    /\ qR = ZeroQuery
    /\ pcR = "header"
    /\ errR = Nil
    /\ qE = ZeroQuery
    /\ qr = Result(0)
    /\ errE = Nil
    /\ summary = ZeroSummary
    /\ results = <<>>
    /\ closes = [queries |-> <<>>, results |-> <<>>]
    /\ ctxDone = FALSE
    /\ gErr = Nil
    /\ summaryVar = ZeroSummary
    /\ runSummary = ZeroSummary
    /\ runErr = Nil
    /\ got = <<>>
    /\ parseErr = Nil
    /\ panicked = ""
    /\ exited = FALSE
    /\ forwarded = <<>>
    /\ queried = <<>>
    /\ produced = <<>>
    /\ received = <<>>
    /\ errLog = <<>>

\* run(): the two channels are made and the three stages started.
Init ==
    /\ input \in Inputs(RunLines, MaxRows)
    /\ InitCommon
    /\ pcE = "prepare"
    /\ pcS = "recv"
    /\ pcRun = "wait"

\* ------------------------------------------------------------- readQueries

\* The header is read and checked.
ReadHeader ==
    /\ Alive
    /\ pcR = "header"
    /\ LET r == csvRead(input, pos, numFields)
           header == r.rec
       IN  /\ pos' = r.pos
           /\ numFields' = r.nf
           /\ IF r.err # Nil
              THEN /\ errR' = r.err
                   /\ pcR' = "close"
                   /\ line' = line
              ELSE IF \/ Len(header) # NumColumns
                      \/ header[1] # "hostname"
                      \/ header[2] # "start_time"
                      \/ header[3] # "end_time"
              THEN /\ errR' = Err("fmt", 0, "Unknown input format", Join(header))
                   /\ pcR' = "close"
                   /\ line' = line
              ELSE /\ errR' = errR
                   /\ pcR' = "read"
                   /\ line' = 1
    /\ UNCHANGED <<input, qR, execVars, summVars, closes, groupVars, runVars,
                   parseVars, procVars, histVars>>

\* One turn of the loop up to sendQuery: the next row is read and converted.
ReadRow ==
    /\ Alive
    /\ pcR = "read"
    /\ LET r == csvRead(input, pos, numFields)
           n == newQuery(r.rec)
       IN  /\ pos' = r.pos
           /\ numFields' = r.nf
           /\ IF r.err = ErrEOF
              THEN /\ errR' = Nil
                   /\ pcR' = "close"
                   /\ qR' = qR
              ELSE IF r.err # Nil
              THEN /\ errR' = r.err
                   /\ pcR' = "close"
                   /\ qR' = qR
              ELSE IF n.err # Nil
              THEN /\ errR' = WrapLine(line, n.err)
                   /\ pcR' = "close"
                   /\ qR' = qR
              ELSE /\ errR' = errR
                   /\ pcR' = "send"
                   /\ qR' = n.q
    /\ UNCHANGED <<input, line, execVars, summVars, closes, groupVars, runVars,
                   parseVars, procVars, histVars>>

\* sendQuery gone wrong: it gives up without waiting for the context.
SendQueryNoWait ==
    /\ Alive
    /\ pcR = "send"
    /\ errR' = Nil
    /\ pcR' = "close"
    /\ UNCHANGED <<input, pos, numFields, line, qR, execVars, summVars, closes,
                   groupVars, runVars, parseVars, procVars, histVars>>

\* readQueries gone wrong: a cancelled send is reported as an error
\* (return ctx.Err()).
SendQueryCancelledAsError ==
    /\ Alive
    /\ pcR = "send"
    /\ ctxDone
    /\ errR' = ErrCanceled
    /\ pcR' = "close"
    /\ UNCHANGED <<input, pos, numFields, line, qR, execVars, summVars, closes,
                   groupVars, runVars, parseVars, procVars, histVars>>

\* sendQuery returns false: the context is done.
SendQueryCancelled ==
    /\ Alive
    /\ pcR = "send"
    /\ ctxDone
    /\ errR' = Nil
    /\ pcR' = "close"
    /\ UNCHANGED <<input, pos, numFields, line, qR, execVars, summVars, closes,
                   groupVars, runVars, parseVars, procVars, histVars>>

\* readQueries gone wrong: the channel is closed on the success path only.
ReaderCloseOnSuccess ==
    /\ Alive
    /\ pcR = "close"
    /\ closes' = IF errR = Nil THEN [closes EXCEPT !.queries = Append(@, "readQueries")]
                 ELSE closes
    /\ pcR' = "return"
    /\ UNCHANGED <<input, pos, numFields, line, qR, errR, execVars, summVars,
                   groupVars, runVars, parseVars, procVars, histVars>>

\* defer close(output)
ReaderClose ==
    /\ Alive
    /\ pcR = "close"
    /\ closes' = [closes EXCEPT !.queries = Append(@, "readQueries")]
    /\ pcR' = "return"
    /\ UNCHANGED <<input, pos, numFields, line, qR, errR, execVars, summVars,
                   groupVars, runVars, parseVars, procVars, histVars>>

\* errgroup gone wrong: the last error is kept, not the first.
GroupErrLast(err) == IF err # Nil THEN err ELSE gErr

\* errgroup: the error the group keeps when a stage returns err.
GroupErr(err) == IF err # Nil /\ gErr = Nil THEN err ELSE gErr

\* errgroup: a stage's function has returned err to the group; the first
\* non-nil error is kept and cancels the context.
GroupReturn(stage, err) ==
    /\ gErr' = GroupErr(err)
    /\ ctxDone' = (ctxDone \/ err # Nil)
    /\ errLog' = IF err # Nil THEN Append(errLog, [stage |-> stage, err |-> err])
                 ELSE errLog

\* readQueries returns to the group.
ReaderReturn ==
    /\ Alive
    /\ pcRun = "wait"
    /\ pcR = "return"
    /\ pcR' = "done"
    /\ GroupReturn("readQueries", errR)
    /\ UNCHANGED <<input, pos, numFields, line, qR, errR, execVars, summVars,
                   closes, runVars, parseVars, procVars, histVars>>

\* ---------------------------------------------------------- executeQueries

\* db.PrepareContext(ctx, sqlQ): it fails when ctx is already done, and the
\* database may fail it otherwise.
Prepare ==
    /\ Alive
    /\ pcE = "prepare"
    /\ \E fails \in BOOLEAN :
          LET err == IF ctxDone THEN ErrCanceled
                     ELSE IF fails THEN ErrPrepare ELSE Nil
          IN  /\ errE' = err
              /\ pcE' = IF err # Nil THEN "close" ELSE "recv"
    /\ UNCHANGED <<input, readerVars, qE, qr, summVars, closes, groupVars,
                   runVars, parseVars, procVars, histVars>>

\* sendQuery in readQueries meets recvQuery in executeQueries: the query is
\* handed over, sendQuery and recvQuery return true, and readQueries' loop
\* counter is incremented.
TransferQuery ==
    /\ Alive
    /\ pcR = "send"
    /\ pcE = "recv"
    /\ qE' = qR
    /\ forwarded' = Append(forwarded, qR)
    /\ pcR' = "read"
    /\ line' = line + 1
    /\ pcE' = "query"
    /\ UNCHANGED <<input, pos, numFields, qR, errR, qr, errE, summVars, closes,
                   groupVars, runVars, parseVars, procVars, queried, produced,
                   received>>

\* recvQuery returns false: the queries channel is closed, and the receive
\* stores the zero query in *q.
RecvQueryClosed ==
    /\ Alive
    /\ pcE = "recv"
    /\ queriesClosed
    /\ qE' = ZeroQuery
    /\ errE' = Nil
    /\ pcE' = "close"
    /\ UNCHANGED <<input, readerVars, qr, summVars, closes, groupVars,
                   runVars, parseVars, procVars, histVars>>

\* recvQuery returns false: the context is done.
RecvQueryCancelled ==
    /\ Alive
    /\ pcE = "recv"
    /\ ctxDone
    /\ errE' = Nil
    /\ pcE' = "close"
    /\ UNCHANGED <<input, readerVars, qE, qr, summVars, closes, groupVars,
                   runVars, parseVars, procVars, histVars>>

\* executeQuery: stmt.QueryRow is issued for the received query.
QueryStart ==
    /\ Alive
    /\ pcE = "query"
    /\ queried' = Append(queried, qE.hostname)
    /\ pcE' = "inflight"
    /\ UNCHANGED <<input, readerVars, qE, qr, errE, summVars, closes, groupVars,
                   runVars, parseVars, procVars, forwarded, produced, received>>

\* executeQuery gone wrong: the query watches the context
\* (stmt.QueryRowContext(ctx, ...)) and is abandoned once the context is done.
QueryFinishWatchingContext ==
    /\ Alive
    /\ pcE = "inflight"
    /\ \/ /\ errE' = IF ctxDone THEN ErrCanceled ELSE ErrQuery
          /\ pcE' = "close"
          /\ UNCHANGED <<qr, produced>>
       \/ /\ ~ctxDone
          /\ \E d \in 0..MaxLatency :
                /\ qr' = Result(d)
                /\ produced' = Append(produced, Result(d))
                /\ pcE' = "send"
                /\ errE' = errE
    /\ UNCHANGED <<input, readerVars, qE, summVars, closes, groupVars, runVars,
                   parseVars, procVars, forwarded, queried, received>>

\* executeQuery gone wrong: a query that fails is issued once more.
QueryFinishRetrying ==
    /\ Alive
    /\ pcE = "inflight"
    /\ \/ /\ IF Len(queried) <= Len(forwarded)
             THEN pcE' = "query" /\ errE' = errE
             ELSE pcE' = "close" /\ errE' = ErrQuery
          /\ UNCHANGED <<qr, produced>>
       \/ \E d \in 0..MaxLatency :
             /\ qr' = Result(d)
             /\ produced' = Append(produced, Result(d))
             /\ pcE' = "send"
             /\ errE' = errE
    /\ UNCHANGED <<input, readerVars, qE, summVars, closes, groupVars, runVars,
                   parseVars, procVars, forwarded, queried, received>>

\* executeQuery: the query round trip ends, with a row scanned after some
\* latency or with an error. The query does not watch the context.
QueryFinish ==
    /\ Alive
    /\ pcE = "inflight"
    /\ \/ /\ errE' = ErrQuery
          /\ pcE' = "close"
          /\ UNCHANGED <<qr, produced>>
       \/ \E d \in 0..MaxLatency :
             /\ qr' = Result(d)
             /\ produced' = Append(produced, Result(d))
             /\ pcE' = "send"
             /\ errE' = errE
    /\ UNCHANGED <<input, readerVars, qE, summVars, closes, groupVars, runVars,
                   parseVars, procVars, forwarded, queried, received>>

\* The results channel gone wrong: the send completes with no receiver, as
\* on a buffered channel, and executeQueries carries on with the next query.
TransferResultUnreceived ==
    /\ Alive
    /\ pcE = "send"
    /\ pcE' = "recv"
    /\ UNCHANGED <<input, readerVars, qE, qr, errE, summVars, closes, groupVars,
                   runVars, parseVars, procVars, histVars>>

\* sendQueryResult in executeQueries meets recvQueryResult in
\* summariseResults: the result is handed over, both return true, and the
\* body of summariseResults' loop runs.
TransferResult ==
    /\ Alive
    /\ pcE = "send"
    /\ pcS = "recv"
    /\ received' = Append(received, qr)
    /\ results' = Append(results, qr)
    /\ summary' = Tally(summary, qr)
    /\ pcE' = "recv"
    /\ UNCHANGED <<input, readerVars, qE, qr, errE, pcS, closes, groupVars,
                   runVars, parseVars, procVars, forwarded, queried, produced>>

\* sendQueryResult gone wrong: it gives up without waiting for the context
\* (a select with a default case), dropping the result.
SendResultNoWait ==
    /\ Alive
    /\ pcE = "send"
    /\ errE' = Nil
    /\ pcE' = "close"
    /\ UNCHANGED <<input, readerVars, qE, qr, summVars, closes, groupVars,
                   runVars, parseVars, procVars, histVars>>

\* sendQueryResult returns false: the context is done.
SendResultCancelled ==
    /\ Alive
    /\ pcE = "send"
    /\ ctxDone
    /\ errE' = Nil
    /\ pcE' = "close"
    /\ UNCHANGED <<input, readerVars, qE, qr, summVars, closes, groupVars,
                   runVars, parseVars, procVars, histVars>>

\* defer close(output) (after the deferred stmt.Close())
ExecClose ==
    /\ Alive
    /\ pcE = "close"
    /\ closes' = [closes EXCEPT !.results = Append(@, "executeQueries")]
    /\ pcE' = "return"
    /\ UNCHANGED <<input, readerVars, qE, qr, errE, summVars, groupVars, runVars,
                   parseVars, procVars, histVars>>

\* executeQueries returns to the group.
ExecReturn ==
    /\ Alive
    /\ pcE = "return"
    /\ pcE' = "done"
    /\ GroupReturn("executeQueries", errE)
    /\ UNCHANGED <<input, readerVars, qE, qr, errE, summVars, closes, runVars,
                   parseVars, procVars, histVars>>

\* -------------------------------------------------------- summariseResults

\* recvQueryResult returns false: the results channel is closed.
RecvResultClosed ==
    /\ Alive
    /\ pcS = "recv"
    /\ resultsClosed
    /\ pcS' = "finish"
    /\ UNCHANGED <<input, readerVars, execVars, summary, results, closes,
                   groupVars, runVars, parseVars, procVars, histVars>>

\* recvQueryResult returns false: the context is done.
RecvResultCancelled ==
    /\ Alive
    /\ pcS = "recv"
    /\ ctxDone
    /\ pcS' = "finish"
    /\ UNCHANGED <<input, readerVars, execVars, summary, results, closes,
                   groupVars, runVars, parseVars, procVars, histVars>>

\* After the loop: the mean and the median. With no result received the
\* integer division by summary.count panics: the goroutine starts to unwind.
Finish ==
    /\ Alive
    /\ pcS = "finish"
    /\ IF summary.count = 0
       THEN /\ panicked' = "integer divide by zero"
            /\ pcS' = "panic"
            /\ UNCHANGED <<summary, results>>
       ELSE /\ summary' = [summary EXCEPT
                              !.mean = GoDiv(summary.sum, summary.count),
                              !.median = calculateMedian(results)]
            /\ results' = SortByDuration(results)
            /\ pcS' = "return"
            /\ UNCHANGED panicked
    /\ UNCHANGED <<input, readerVars, execVars, closes, groupVars, runVars,
                   parseVars, exited, histVars>>

\* The panic unwinds the third stage's goroutine: the group's deferred Done
\* runs, so the goroutine counts as finished for Wait, but nothing is
\* assigned to run's summary and no error reaches the group.
PanicUnwind ==
    /\ Alive
    /\ pcS = "panic"
    /\ pcS' = "unwound"
    /\ UNCHANGED <<input, readerVars, execVars, summary, results, closes,
                   groupVars, runVars, parseVars, procVars, histVars>>

\* The deferred calls done, the run-time system reports the panic and ends
\* the process, wherever the other goroutines and run() are.
ProcessExit ==
    /\ Alive
    /\ pcS = "unwound"
    /\ exited' = TRUE
    /\ UNCHANGED <<input, readerVars, execVars, summVars, closes, groupVars,
                   runVars, parseVars, panicked, histVars>>

\* The third stage's function assigns run's summary and returns to the group;
\* summariseResults' error is always nil.
SummReturn ==
    /\ Alive
    /\ pcS = "return"
    /\ summaryVar' = summary
    /\ pcS' = "done"
    /\ GroupReturn("summariseResults", Nil)
    /\ UNCHANGED <<input, readerVars, execVars, summary, results, closes, pcRun,
                   runSummary, runErr, parseVars, procVars, histVars>>

\* --------------------------------------------------------------------- run

\* run gone wrong: summary is read before Wait, when it is still zero.
ReturnedSummaryBeforeWait == ZeroSummary

\* run changed: a zero summary is returned with an error.
ReturnedSummaryZeroOnError == IF gErr # Nil THEN ZeroSummary ELSE summaryVar

\* The summary run() returns: its variable summary, read once Wait is back.
ReturnedSummary == summaryVar

\* group.Wait() returns once the three goroutines have finished, by a return
\* or by a panic unwinding: the context is cancelled and run returns summary
\* and the group's error.
RunReturn ==
    /\ Alive
    /\ pcRun = "wait"
    /\ pcR = "done"
    /\ pcE = "done"
    /\ pcS \in {"done", "unwound"}
    /\ ctxDone' = TRUE
    /\ runSummary' = ReturnedSummary
    /\ runErr' = gErr
    /\ pcRun' = "returned"
    /\ UNCHANGED <<input, readerVars, execVars, summVars, closes, gErr, errLog,
                   summaryVar, parseVars, procVars, histVars>>

Next ==
    \/ ReadHeader
    \/ ReadRow
    \/ SendQueryCancelled
    \/ ReaderClose
    \/ ReaderReturn
    \/ Prepare
    \/ TransferQuery
    \/ RecvQueryClosed
    \/ RecvQueryCancelled
    \/ QueryStart
    \/ QueryFinish
    \/ TransferResult
    \/ SendResultCancelled
    \/ ExecClose
    \/ ExecReturn
    \/ RecvResultClosed
    \/ RecvResultCancelled
    \/ Finish
    \/ PanicUnwind
    \/ ProcessExit
    \/ SummReturn
    \/ RunReturn

Spec == Init /\ [][Next]_vars

\* The scheduler runs every goroutine that can take a step.
FairSpec == Spec /\ WF_vars(Next)

\* ------------------------------------------------------ parse (main_test.go)

\* parse(input): readQueries runs in a goroutine with context.Background()
\* and collect() gathers what it sends.
InitParse ==
    /\ input \in Inputs(ParseLines, MaxParseRows)
    /\ InitCommon
    /\ pcE = "collect"
    /\ pcS = "idle"
    /\ pcRun = "parse"

\* collect: the range loop receives a query and appends it.
CollectQuery ==
    /\ pcRun = "parse"
    /\ pcR = "send"
    /\ pcE = "collect"
    /\ got' = Append(got, qR)
    /\ forwarded' = Append(forwarded, qR)
    /\ pcR' = "read"
    /\ line' = line + 1
    /\ UNCHANGED <<input, pos, numFields, qR, errR, execVars, summVars, closes,
                   groupVars, runVars, parseErr, procVars, queried, produced,
                   received>>

\* collect: the channel is closed, the range loop ends; parse returns got and
\* its variable err as it is at that moment.
CollectDone ==
    /\ pcRun = "parse"
    /\ pcE = "collect"
    /\ queriesClosed
    /\ pcE' = "done"
    /\ runErr' = parseErr
    /\ pcRun' = "returned"
    /\ UNCHANGED <<input, readerVars, qE, qr, errE, summVars, closes, groupVars,
                   summaryVar, runSummary, parseVars, procVars, histVars>>

\* The goroutine of parse: err = readQueries(...).
ParseGoReturn ==
    /\ pcRun \in {"parse", "returned"}
    /\ pcS = "idle"
    /\ pcR = "return"
    /\ parseErr' = errR
    /\ pcR' = "done"
    /\ UNCHANGED <<input, pos, numFields, line, qR, errR, execVars, summVars,
                   closes, groupVars, runVars, got, procVars, histVars>>

NextParse ==
    \/ ReadHeader
    \/ ReadRow
    \/ ReaderClose
    \/ CollectQuery
    \/ CollectDone
    \/ ParseGoReturn

SpecParse == InitParse /\ [][NextParse]_vars

\* ------------------------------------------------- what the claims speak of

IsPrefix(s, t) == Len(s) <= Len(t) /\ s = SubSeq(t, 1, Len(s))

\* The indices of the non-empty lines of the input, the header's first.
RecordLines == {i \in 1..Len(input) : Len(input[i]) > 0}
HeaderLine == IF RecordLines = {} THEN 0
              ELSE CHOOSE i \in RecordLines : \A j \in RecordLines : i <= j
DataLines == RecordLines \ {HeaderLine}

ValidHeader(h) == h = <<"hostname", "start_time", "end_time">>
ValidRow(row) ==
    /\ Len(row) = 3
    /\ row[1] # ""
    /\ ParseTime(row[2]).err = Nil
    /\ ParseTime(row[3]).err = Nil
QueryOf(row) ==
    [hostname |-> row[1], start |-> ParseTime(row[2]).t, end |-> ParseTime(row[3]).t]

\* The lines that are not what the format asks for, and the first of them
\* (0 if there is none).
BadLines ==
    {i \in RecordLines : IF i = HeaderLine THEN ~ValidHeader(input[i])
                         ELSE ~ValidRow(input[i])}
FirstBadLine == IF BadLines = {} THEN 0
                ELSE CHOOSE i \in BadLines : \A j \in BadLines : i <= j

WellFormedInput == HeaderLine # 0 /\ BadLines = {}

\* The non-empty lines among lines lo..hi of the input, in file order.
RECURSIVE RecordsIn(_, _)
RecordsIn(lo, hi) ==
    IF hi < lo THEN <<>>
    ELSE IF Len(input[hi]) = 0 THEN RecordsIn(lo, hi - 1)
    ELSE Append(RecordsIn(lo, hi - 1), input[hi])

\* The data records of the input, in file order.
DataRecords == IF HeaderLine = 0 THEN <<>> ELSE RecordsIn(HeaderLine + 1, Len(input))

\* The data records that precede the first bad line (all of them if none is bad).
RecordsBeforeBad ==
    IF HeaderLine = 0 THEN <<>>
    ELSE IF FirstBadLine = 0 THEN DataRecords
    ELSE RecordsIn(HeaderLine + 1, FirstBadLine - 1)

Queries(rows) == [i \in 1..Len(rows) |-> QueryOf(rows[i])]
Subjects(rows) == [i \in 1..Len(rows) |-> rows[i][1]]
Hostnames(qs) == [i \in 1..Len(qs) |-> qs[i].hostname]

\* The database has failed a prepare or a query.
DbFailed == errE.kind = "sql"

\* Every goroutine and run() itself have stopped or returned.
RunReturned == pcRun = "returned"

\* ------------------------------------------------------------------ claims

\* C1 (as claimed): under every interleaving the three stages and run() all
\* return; stated for finite runs: a run that can take no further step has
\* returned from run().
C1_EveryRunReturns == RunReturned \/ ENABLED Next

\* C2: the group's error is the first non-nil error a stage returned, that
\* error cancels the context, no later error replaces it, and it is the error
\* run() returns.
C2_FirstErrorWins ==
    /\ errLog = <<>> => gErr = Nil
    /\ errLog # <<>> => ctxDone /\ gErr = errLog[1].err
    /\ RunReturned => runErr = (IF errLog = <<>> THEN Nil ELSE errLog[1].err)

\* C2 witness: run() has returned after two stages returned different errors.
C2_Witness ==
    /\ RunReturned
    /\ Len(errLog) >= 2
    /\ errLog[1].err # errLog[2].err
    /\ runErr = errLog[1].err

\* C3 (as claimed): once a stage has failed, the process does not abort, the
\* run does not stop short of returning, and what run() returns is a non-nil
\* error.
C3_FailureReturnsError ==
    errLog # <<>> =>
        /\ panicked = ""
        /\ RunReturned \/ ENABLED Next
        /\ RunReturned => runErr # Nil

\* C4: with a well-formed input of N >= 1 data records and a database that
\* never fails, nothing panics or is cancelled before run() returns, and
\* run() returns a nil error and the summary summariseResults finalized,
\* with count = N, each record queried once and each outcome tallied once.
C4_SuccessfulRun ==
    (WellFormedInput /\ Len(DataRecords) >= 1 /\ ~DbFailed) =>
        /\ panicked = ""
        /\ errLog = <<>>
        /\ ~RunReturned => ~ctxDone
        /\ RunReturned =>
              /\ runErr = Nil
              /\ pcS = "done"
              /\ runSummary = summary
              /\ runSummary.count = Len(DataRecords)
              /\ forwarded = Queries(DataRecords)
              /\ queried = Subjects(DataRecords)
              /\ Len(produced) = Len(DataRecords)
              /\ received = produced
              /\ Len(results) = Len(DataRecords)

\* C4 witness: a run over two data records and a blank line has returned
\* without error.
C4_Witness ==
    /\ WellFormedInput
    /\ Len(DataRecords) >= 2
    /\ Len(input) > Len(DataRecords) + 1
    /\ RunReturned
    /\ runErr = Nil
    /\ runSummary.count = Len(DataRecords)

\* C5: the queries handed over and the subjects queried are at every moment a
\* prefix of the input's non-blank data records in file order, each query is
\* issued for the latest descriptor handed over, and a run over a well-formed
\* input that returns without error has handed over and queried all of them.
C5_OrderPreserved ==
    /\ IsPrefix(Hostnames(forwarded), Subjects(DataRecords))
    /\ IsPrefix(queried, Subjects(DataRecords))
    /\ IsPrefix(queried, Hostnames(forwarded))
    /\ Len(forwarded) - Len(queried) \in {0, 1}
    /\ WellFormedInput => IsPrefix(forwarded, Queries(DataRecords))
    /\ (WellFormedInput /\ RunReturned /\ runErr = Nil) =>
          /\ forwarded = Queries(DataRecords)
          /\ queried = Subjects(DataRecords)

\* C5 witness: a well-formed input with a blank line between two different
\* records has been handed over and queried in full.
C5_Witness ==
    /\ WellFormedInput
    /\ Len(input) > Len(DataRecords) + 1
    /\ Len(DataRecords) >= 2
    /\ DataRecords[1] # DataRecords[2]
    /\ RunReturned
    /\ queried = Subjects(DataRecords)
    /\ forwarded = Queries(DataRecords)

\* C6 (as claimed): a run over a valid header and no data record, the
\* database not failing, does not panic, and ends with run() returning a
\* non-nil error and no summary of count 0.
C6_EmptyResultError ==
    (HeaderLine # 0 /\ ValidHeader(input[HeaderLine]) /\ DataLines = {} /\ ~DbFailed) =>
        /\ panicked = ""
        /\ RunReturned \/ ENABLED Next
        /\ RunReturned => runErr # Nil

\* C7: under parse(), when the input has a bad line readQueries returns a
\* non-nil error, has read nothing past that line, and has forwarded exactly
\* the queries of the data records before it, in order (none when the header
\* is the bad line); with no bad line it returns nil and forwards them all.
C7_ForwardedBeforeError ==
    /\ IsPrefix(forwarded, Queries(RecordsBeforeBad))
    /\ pos <= (IF FirstBadLine = 0 THEN Len(input) ELSE FirstBadLine)
    /\ (pcR \in {"close", "return", "done"} /\ input # <<>>) =>
          IF FirstBadLine # 0
          THEN /\ errR # Nil
               /\ pos = FirstBadLine
               /\ forwarded = Queries(RecordsBeforeBad)
               /\ got = forwarded
          ELSE /\ errR = Nil
               /\ forwarded = Queries(DataRecords)

\* C7 witness: readQueries has returned an error for the third data record
\* after forwarding the two before it.
C7_Witness ==
    /\ pcRun \in {"parse", "returned"}
    /\ pcS = "idle"
    /\ pcR = "done"
    /\ errR # Nil
    /\ Len(forwarded) = 2
    /\ FirstBadLine = 4

\* C8 (as claimed): the error readQueries returns for an invalid data record
\* carries the 1-based line number of that record in the input.
C8_ErrorLineNumber ==
    (pcR \in {"close", "return", "done"} /\ errR.kind \in {"line", "csv.ParseError"}) =>
        errR.line = FirstBadLine

\* C9: each channel is closed at most once and only by its writer, a stage
\* that has returned (on whatever path) has closed its channel, and once a
\* channel is closed its writer is past every send.
C9_ChannelsClosedOnce ==
    /\ closes.queries \in {<<>>, <<"readQueries">>}
    /\ closes.results \in {<<>>, <<"executeQueries">>}
    /\ pcR \in {"return", "done"} <=> queriesClosed
    /\ pcE \in {"return", "done"} <=> resultsClosed

\* C9 witness: both stages have returned on an error path, the reader with a
\* format error and the execution stage after cancellation, channels closed.
C9_Witness ==
    /\ pcRun = "wait"
    /\ pcR = "done"
    /\ pcE = "done"
    /\ errR # Nil
    /\ errE = Nil
    /\ Len(forwarded) >= 1
    /\ closes = [queries |-> <<"readQueries">>, results |-> <<"executeQueries">>]

\* C10: a send returns true exactly when its value is handed to the receiver
\* and false only when the context is done, nothing being handed over; a
\* receive returns true exactly when it obtains the value the writer is
\* sending and false only when the channel is closed or the context is done.
C10_Primitives ==
    [][/\ (pcR = "send" /\ pcR' # "send") =>
             /\ pcR' = "read" <=>
                   (pcE = "recv" /\ pcE' = "query" /\ qE' = qR
                      /\ forwarded' = Append(forwarded, qR))
             /\ pcR' # "read" => (ctxDone /\ forwarded' = forwarded /\ pcR' = "close")
       /\ (pcE = "recv" /\ pcE' # "recv") =>
             /\ pcE' = "query" <=>
                   (pcR = "send" /\ pcR' = "read" /\ qE' = qR
                      /\ forwarded' = Append(forwarded, qR))
             /\ pcE' # "query" =>
                   /\ ctxDone \/ queriesClosed
                   /\ forwarded' = forwarded
                   /\ qE' # qE => (queriesClosed /\ qE' = ZeroQuery)
       /\ (pcE = "send" /\ pcE' # "send") =>
             /\ pcE' = "recv" <=>
                   (pcS = "recv" /\ pcS' = "recv" /\ received' = Append(received, qr)
                      /\ results' = Append(results, qr))
             /\ pcE' # "recv" => (ctxDone /\ received' = received /\ pcE' = "close")
       /\ (pcS = "recv" /\ (pcS' # "recv" \/ received' # received)) =>
             /\ pcS' = "recv" <=>
                   (pcE = "send" /\ pcE' = "recv" /\ received' = Append(received, qr))
             /\ pcS' # "recv" =>
                   ((ctxDone \/ resultsClosed) /\ received' = received
                      /\ results' = results)
      ]_vars

\* C10 witness: after one query was handed over and failed in the database,
\* sendQuery has returned false for the next one, which was not handed over,
\* the context being done.
C10_Witness ==
    /\ pcRun = "wait"
    /\ pcR = "close"
    /\ errR = Nil
    /\ ctxDone
    /\ Len(forwarded) = 1
    /\ qR # forwarded[1]
    /\ errE = ErrQuery
    /\ received = <<>>

\* C11 (as claimed): once the context is done no descriptor and no outcome
\* is handed over any more and no query is started.
C11_NothingAfterCancel ==
    [][ctxDone =>
          /\ forwarded' = forwarded
          /\ received' = received
          /\ queried' = queried]_vars

\* C11 (amended): once the context is done, a query in flight still ends by
\* itself (with its row or with the database's error, never abandoned); no
\* further descriptor is handed over; the only query that may still start is
\* the one of the descriptor executeQueries had already received, and the only
\* outcome that may still be handed over is the one of the last descriptor;
\* sendQuery and recvQuery return false.
C11_AfterCancel ==
    [][ctxDone =>
          /\ forwarded' = forwarded
          /\ queried' # queried =>
                (pcE = "query" /\ queried' = Hostnames(forwarded)
                   /\ Len(queried) = Len(forwarded) - 1)
          /\ received' # received =>
                (Len(received') = Len(forwarded) /\ produced' = received')
          /\ (pcE = "inflight" /\ pcE' # "inflight") =>
                \/ pcE' = "send" /\ produced' = Append(produced, qr') /\ errE' = Nil
                \/ pcE' = "close" /\ errE' = ErrQuery
          /\ (pcR = "send" /\ pcR' # "send") => pcR' = "close"
          /\ (pcE = "recv" /\ pcE' # "recv") => pcE' = "close"
          /\ (pcS = "recv" /\ pcS' # "recv") => pcS' = "finish"]_vars

\* C11 witness: the context was cancelled by readQueries' error while a
\* query was in flight, and the query has then finished with a result.
C11_Witness ==
    /\ pcRun = "wait"
    /\ ctxDone
    /\ errR # Nil
    /\ pcE = "send"
    /\ Len(produced) = 2
    /\ Len(received) = 1

\* The three stages have returned to the group.
StagesReturned == pcR = "done" /\ pcE = "done" /\ pcS = "done"

\* C12 (as claimed): when the pipeline has stopped, every outcome a
\* completed query produced has been received and counted.
C12_NoResultLost ==
    StagesReturned => (received = produced /\ summary.count = Len(produced))

\* C12 (amended): the outcomes received and counted are always a prefix of
\* those produced, at most the last one missing; an outcome is dropped only
\* by a sendQueryResult that found the context done, and a run that ends
\* without error has counted every outcome produced.
C12_LostOnlyOnCancel ==
    /\ IsPrefix(received, produced)
    /\ Len(produced) - Len(received) \in {0, 1}
    /\ summary.count = Len(received)
    /\ Len(produced) > Len(received) => (pcE = "send" \/ ctxDone)
    /\ (StagesReturned /\ gErr = Nil) => received = produced

\* C12 witness: run() has returned after a completed query's outcome was
\* dropped at the cancelled handoff.
C12_Witness ==
    /\ RunReturned
    /\ runErr # Nil
    /\ Len(produced) = Len(received) + 1
    /\ summary.count = Len(received)

\* The latencies of a sequence of results, and their sum, largest, smallest
\* and k-th smallest, as the statistics are defined.
Latencies(rs) == [i \in 1..Len(rs) |-> rs[i].queryDuration]

RECURSIVE SumOf(_)
SumOf(L) == IF Len(L) = 0 THEN 0 ELSE Head(L) + SumOf(Tail(L))

LargestOf(L) == CHOOSE x \in {L[i] : i \in 1..Len(L)} : \A i \in 1..Len(L) : x >= L[i]

SmallestOf(L) == CHOOSE x \in {L[i] : i \in 1..Len(L)} : \A i \in 1..Len(L) : x <= L[i]

KthSmallest(L, k) ==
    CHOOSE v \in {L[i] : i \in 1..Len(L)} :
        /\ Cardinality({i \in 1..Len(L) : L[i] < v}) < k
        /\ k <= Cardinality({i \in 1..Len(L) : L[i] <= v})

MedianOf(L) ==
    IF Len(L) % 2 = 1
    THEN KthSmallest(L, (Len(L) + 1) \div 2)
    ELSE (KthSmallest(L, Len(L) \div 2) + KthSmallest(L, (Len(L) \div 2) + 1)) \div 2

\* C13 (as claimed): the summary run() returns with a non-nil error is all
\* zero.
C13_ZeroSummaryOnError ==
    (RunReturned /\ runErr # Nil) => runSummary = ZeroSummary

\* C13 (amended): the summary run() returns with a non-nil error is what its
\* variable summary holds once Wait is back: the summary summariseResults
\* returned, computed over the results it had received (count their number,
\* sum, max, mean and median over them), or, when summariseResults panicked
\* on having received none, the zero summary.
C13_PartialSummaryOnError ==
    (RunReturned /\ runErr # Nil) =>
        \/ /\ pcS = "done"
           /\ runSummary = summary
           /\ runSummary.count = Len(received)
           /\ runSummary.count >= 1
           /\ runSummary.sum = SumOf(Latencies(received))
           /\ runSummary.max = LargestOf(Latencies(received))
           /\ runSummary.mean = GoDiv(runSummary.sum, runSummary.count)
           /\ runSummary.median = MedianOf(Latencies(received))
        \/ /\ pcS = "unwound"
           /\ panicked # ""
           /\ received = <<>>
           /\ runSummary = ZeroSummary

\* C13 witness: run() has returned an error together with the summary of
\* the two outcomes received before the fault.
C13_Witness ==
    /\ RunReturned
    /\ runErr # Nil
    /\ runSummary.count = 2
    /\ runSummary.sum > 0

\* C14 (as claimed): when readQueries leaves its loop with the context
\* already done, it returns a nil error.
C14_NilOnCancel ==
    [][(ctxDone /\ pcR \in {"read", "send"} /\ pcR' = "close") => errR' = Nil]_vars

\* C14 (amended): once the context is done readQueries hands over nothing
\* more; a sendQuery under way returns false and readQueries returns nil; a
\* read under way is still done, and readQueries then returns nil at the end
\* of the input, the record's error if the record is invalid, and nil from
\* the sendQuery that follows otherwise.
C14_StopsOnCancel ==
    [][(ctxDone /\ pcR \in {"read", "send"} /\ pcR' # pcR) =>
          /\ forwarded' = forwarded
          /\ pcR = "send" => (pcR' = "close" /\ errR' = Nil /\ pos' = pos)
          /\ pcR = "read" =>
                \/ pcR' = "send" /\ errR' = Nil
                \/ pcR' = "close" /\ errR' = Nil /\ pos' = Len(input)
                      /\ FirstBadLine = 0
                \/ pcR' = "close" /\ errR' # Nil /\ pos' = FirstBadLine
                      /\ errR'.kind \in {"line", "csv.ParseError"}]_vars

\* C14 witness: the context is done (a database error), readQueries is
\* about to read, and the next unread record is invalid.
C14_Witness ==
    /\ pcRun = "wait"
    /\ ctxDone
    /\ DbFailed
    /\ pcR = "read"
    /\ FirstBadLine > pos
    /\ Len(forwarded) = Len(RecordsBeforeBad)
    /\ Len(forwarded) >= 1

\* C15: each descriptor handed over is queried at most once, in order; once
\* the database has failed a prepare or a query, executeQueries receives no
\* further descriptor, issues no further query, produces and sends no
\* outcome for the failing descriptor, closes the results channel and returns
\* the database's error as it is, which is the run's error when it is the
\* first error returned to the group.
C15_DatabaseErrorIsFatal ==
    /\ [](/\ IsPrefix(queried, Hostnames(forwarded))
          /\ DbFailed =>
                /\ pcE \in {"close", "return", "done"}
                /\ errE \in {ErrPrepare, ErrQuery}
                /\ errE = ErrPrepare => (forwarded = <<>> /\ queried = <<>>)
                /\ errE = ErrQuery =>
                      /\ Len(queried) = Len(forwarded)
                      /\ Len(produced) = Len(queried) - 1
                      /\ received = produced
                /\ pcE \in {"return", "done"} => closes.results = <<"executeQueries">>
                /\ pcE = "done" =>
                      /\ \E i \in 1..Len(errLog) :
                            errLog[i] = [stage |-> "executeQueries", err |-> errE]
                      /\ errLog[1].stage = "executeQueries" => gErr = errE
                      /\ (errLog[1].stage = "executeQueries" /\ RunReturned) =>
                            runErr = errE)
    /\ [][DbFailed =>
             /\ forwarded' = forwarded
             /\ queried' = queried
             /\ produced' = produced
             /\ received' = received
             /\ errE' = errE]_vars

\* C15 witness: run() has returned the error of the second query, the first
\* outcome having been received.
C15_Witness ==
    /\ RunReturned
    /\ runErr = ErrQuery
    /\ errE = ErrQuery
    /\ Len(queried) = 2
    /\ Len(received) = 1

\* summariseResults has computed its summary and is returning it.
Summarised == pcS \in {"return", "done"}

\* C16: the summary summariseResults returns for the results it received has
\* count the number of results, sum the sum of their latencies, max the
\* largest latency, and mean the sum divided by the count, truncated.
C16_CountSumMaxMean ==
    Summarised =>
        /\ Len(received) >= 1
        /\ summary.count = Len(received)
        /\ summary.sum = SumOf(Latencies(received))
        /\ summary.max = LargestOf(Latencies(received))
        /\ summary.mean = SumOf(Latencies(received)) \div Len(received)

\* C16 witness: three results of latencies summing to 5 were summarised, the
\* mean 5/3 truncated to 1.
C16_Witness ==
    /\ Summarised
    /\ Len(received) = 3
    /\ summary.sum = 5
    /\ summary.max = 2
    /\ summary.mean = 1
    /\ received[1].queryDuration = 1

\* C17: after each result received the running minimum is the smallest
\* latency received so far, a latency of zero included, and so is the
\* minimum of the summary returned.
C17_MinIsSmallest ==
    Len(received) >= 1 => summary.min = SmallestOf(Latencies(received))

\* C18: the median of the summary returned is the middle latency of the
\* results received when their number is odd and the truncated average of
\* the two middle latencies when it is even, whatever their order of arrival.
C18_Median ==
    Summarised => summary.median = MedianOf(Latencies(received))

\* C18 witness: three results arrived with latencies 2, 0, 1 in that order;
\* the median is 1.
C18_Witness ==
    /\ Summarised
    /\ Latencies(received) = <<2, 0, 1>>
    /\ summary.median = 1

\* C19: newQuery checks the hostname, then the start time, then the end time,
\* and reports the first failure only: "empty hostname" for an empty
\* hostname whatever the timestamps are, a start-time error carrying the
\* start field exactly when the start field is the first to fail, and an
\* end-time error carrying the end field exactly when the start field parses
\* and the end field does not.
C19_ErrorNamesField ==
    (pcR \in {"close", "return", "done"} /\ errR.kind = "line") =>
        LET row == input[FirstBadLine]
            startBad == ParseTime(row[2]).err # Nil
            endBad == ParseTime(row[3]).err # Nil
        IN  /\ row[1] = "" => errR.msg = "empty hostname"
            /\ (row[1] # "" /\ startBad) =>
                  (errR.msg = "invalid start time" /\ errR.arg = row[2])
            /\ (row[1] # "" /\ ~startBad /\ endBad) =>
                  (errR.msg = "invalid end time" /\ errR.arg = row[3])
            /\ errR.msg = "invalid start time" => (row[1] # "" /\ startBad)

\* Queries started and neither answered nor failed.
InFlight == Len(queried) - Len(produced) - (IF errE = ErrQuery THEN 1 ELSE 0)

\* C20: with F the descriptors handed over by readQueries, E the queries
\* executeQueries has started and A the results summariseResults has
\* received, F >= E >= A and F - A <= 1 in every state, and at most one
\* query is in flight, which is the case exactly while executeQueries is
\* inside its query.
C20_BackPressure ==
    /\ Len(forwarded) >= Len(queried)
    /\ Len(queried) >= Len(received)
    /\ Len(forwarded) - Len(received) <= 1
    /\ InFlight \in {0, 1}
    /\ InFlight = 1 <=> pcE = "inflight"

\* C20 witness: the third descriptor's query is in flight, two results
\* having been received.
C20_Witness ==
    /\ pcE = "inflight"
    /\ Len(forwarded) = 3
    /\ Len(queried) = 3
    /\ Len(received) = 2

====
